---- MODULE Spec2Model ----
(***************************************************************************)
(* Model of the media processing pipeline of src/main.py:                  *)
(*   - ProcessingQueue (add_to_queue / process_queue) and the asyncio      *)
(*     tasks it creates and awaits,                                        *)
(*   - the way an exception that escapes a task travels up the chain of    *)
(*     awaiting frames to the handle_media invocation at its root.         *)
(* A job is one call of process_media_file_koyeb; jobs are numbered in     *)
(* the order in which add_to_queue is called for them.                     *)
(***************************************************************************)
EXTENDS Integers, Sequences, FiniteSets, TLC

\* ---- bounds of the model ------------------------------------------------
NumUsers == 3
\* add_to_queue calls in a run of Spec (and of SpecCancel)
MaxJobs == 4
\* add_to_queue calls in a run of SpecBurst, the longer submission burst
BurstJobs == 5
\* Jobs submitted in a run of SpecFair
FairJobs == 3

Users == 1..NumUsers
Jobs == 1..BurstJobs

\* Steps of the clock in a run of SpecGate
MaxTicks == 2

\* ---- configuration -------------------------------------------------------
\* Config.MAX_CONCURRENT_PROCESSES, the default of ProcessingQueue.max_concurrent
max_concurrent == 2
\* Config.MAX_AUDIO_SIZE, Config.MAX_VIDEO_SIZE (500MB, 900MB), Config.MIN_FILE_SIZE
MAX_AUDIO_SIZE == 524288000
MAX_VIDEO_SIZE == 943718400
MIN_FILE_SIZE == 1024
\* Config.MAX_FILES_PER_HOUR, Config.MAX_FILES_PER_DAY
MAX_FILES_PER_HOUR == 2
MAX_FILES_PER_DAY == 3
\* The windows of RateLimiter, in seconds
HOUR == 3600
DAY == 86400

VARIABLES
    active_processes,   \* dict user_id -> task (the job the task runs)
    queue,              \* list of waiting (user_id, process_func, args, kwargs)
    submitted,          \* number of add_to_queue calls made so far
    owner,              \* job -> user_id it was submitted with (0: none, or discarded)
    status,             \* job -> "none" | "queued" | "running" | "ended" |
                        \*        "chain" | "done"
    result,             \* job -> "none" | "ok" | "exc": how its task ended
    root,               \* job -> the job whose handle_media invocation awaits it
    chain_exc,          \* job -> the exception pending in the frames awaiting it:
                        \*        "none" | "same" (raised by tasks of the user at
                        \*        the root only) | "other" (by another user's task)
    error_reply,        \* the last generic error reply sent by handle_media
    cancel_requested,   \* the queued job whose submitter last asked to cancel it
    now,                \* time.time(), in seconds since the bot started
    ticks,              \* number of steps the clock has made
    user_activity,      \* RateLimiter.user_activity: dict user_id -> list of times
    user_states,        \* dict user_id -> state of the user's session
    last,               \* the last media message handled and handle_media's verdict
    run,                \* one call of process_media_file_koyeb: its arguments,
                        \* its position and what it has done so far
    stats,              \* BotStats.stats, the counters document
    report,             \* the last result text shown to a user
    answer              \* the last answer of callback_handler to a callback

schedVars == <<active_processes, queue, submitted, owner, status, result,
               root, chain_exc, error_reply>>

gateVars == <<now, ticks, user_activity, user_states, last>>

outVars == <<stats, report, answer>>

vars == <<schedVars, cancel_requested, gateVars, run, outVars>>

\* ---- dict helpers ---------------------------------------------------------
\* d[k] = v
Put(d, k, v) == [x \in (DOMAIN d) \cup {k} |-> IF x = k THEN v ELSE d[x]]

\* d.pop(k, None)
Pop(d, k) == [x \in (DOMAIN d) \ {k} |-> d[x]]

\* len(self.active_processes) < self.max_concurrent
HasFreeSlotLeq(a) == Cardinality(DOMAIN a) <= max_concurrent
HasFreeSlot(a) == Cardinality(DOMAIN a) < max_concurrent

\* ---- process_queue ---------------------------------------------------------
\* The synchronous part of process_queue, up to its `await task`: the head of
\* the queue is popped, a task is created for it and recorded under its user.
process_queueNoTask(a, q) ==
    IF q # <<>> /\ HasFreeSlot(a)
    THEN [active |-> a, queue |-> Tail(q), promoted |-> 0]
    ELSE [active |-> a, queue |-> q, promoted |-> 0]
process_queue(a, q) ==
    IF q # <<>> /\ HasFreeSlot(a)
    THEN [active |-> Put(a, owner[Head(q)], Head(q)),
          queue |-> Tail(q), promoted |-> Head(q)]
    ELSE [active |-> a, queue |-> q, promoted |-> 0]

\* The `finally:` clause that follows `await task` in add_to_queue and in
\* process_queue: it runs whether the task returned or raised.
FinallyNoPromote(a, q, u, raised) ==
    [active |-> Pop(a, u), queue |-> q, promoted |-> 0]
FinallyOnlyOnReturn(a, q, u, raised) ==
    IF raised THEN [active |-> a, queue |-> q, promoted |-> 0]
    ELSE process_queue(Pop(a, u), q)
Finally(a, q, u, raised) == process_queue(Pop(a, u), q)

Running == {j \in Jobs : status[j] = "running"}

NoReply == [user |-> 0, own_result |-> "none", raised_by |-> "none"]

\* The exception pending once job j's task has ended, in the chain rooted at r.
Pending(j, r) ==
    IF result[j] = "exc" /\ owner[j] # owner[r] THEN "other"
    ELSE IF result[j] = "exc" /\ chain_exc[j] = "none" THEN "same"
    ELSE chain_exc[j]

\* Users are only ever compared with each other: a submission by a user who
\* has no job in the system is represented by the least such user.
Live == {owner[j] : j \in Jobs} \ {0}
Candidates ==
    Live \cup {u \in Users : u \notin Live /\ \A v \in 1..(u - 1) : v \in Live}


\* ---- RateLimiter -------------------------------------------------------------
\* [t for t in ts if current_time - t < span]
RecentLeq(ts, t0, span) == SelectSeq(ts, LAMBDA t : t0 - t <= span)
Recent(ts, t0, span) == SelectSeq(ts, LAMBDA t : t0 - t < span)

\* RateLimiter.check_limits(user_id) at time t0
check_limitsGlobal(ua, u, t0) ==
    IF u \notin DOMAIN ua
    THEN [hourly |-> FALSE, daily |-> FALSE]
    ELSE [hourly |-> \E w \in DOMAIN ua :
                        Len(Recent(ua[w], t0, HOUR)) >= MAX_FILES_PER_HOUR,
          daily |-> \E w \in DOMAIN ua :
                        Len(Recent(ua[w], t0, DAY)) >= MAX_FILES_PER_DAY]
check_limitsGt(ua, u, t0) ==
    IF u \notin DOMAIN ua
    THEN [hourly |-> FALSE, daily |-> FALSE]
    ELSE [hourly |-> Len(Recent(ua[u], t0, HOUR)) > MAX_FILES_PER_HOUR,
          daily |-> Len(Recent(ua[u], t0, DAY)) > MAX_FILES_PER_DAY]
check_limits(ua, u, t0) ==
    IF u \notin DOMAIN ua
    THEN [hourly |-> FALSE, daily |-> FALSE]
    ELSE [hourly |-> Len(Recent(ua[u], t0, HOUR)) >= MAX_FILES_PER_HOUR,
          daily |-> Len(Recent(ua[u], t0, DAY)) >= MAX_FILES_PER_DAY]

\* RateLimiter.update_activity(user_id) at time t0
update_activity(ua, u, t0) ==
    Put(ua, u, Append(Recent(IF u \in DOMAIN ua THEN ua[u] ELSE <<>>, t0, DAY), t0))

\* ---- user sessions -----------------------------------------------------------
\* get_user_state(user_id): the entry is created with its defaults when absent
DefaultState ==
    [mode |-> "None", audio_preset |-> "medium", video_preset |-> "medium",
     video_codec |-> "h264"]

get_user_state(us, u) == IF u \in DOMAIN us THEN us ELSE Put(us, u, DefaultState)

\* ---- media messages ----------------------------------------------------------
\* What a message carries: an audio, a voice note, a video, or a document
\* with an audio/, a video/ or another (or no) mime type.
MessageKinds == {"audio", "voice", "video", "doc_audio", "doc_video", "doc_other"}

\* media_type as handle_media determines it ("none": media_file stays None)
MediaType(kind) ==
    IF kind \in {"audio", "voice", "doc_audio"} THEN "audio"
    ELSE IF kind \in {"video", "doc_video"} THEN "video"
    ELSE "none"

\* max_size as handle_media determines it
MaxSize(media_type) ==
    IF media_type = "audio" THEN MAX_AUDIO_SIZE ELSE MAX_VIDEO_SIZE

\* The file sizes tried for a kind of message: at and around the limits that
\* handle_media applies to it.
FileSizes(kind) ==
    {MIN_FILE_SIZE - 1, MIN_FILE_SIZE, MaxSize(MediaType(kind)),
     MaxSize(MediaType(kind)) + 1}

NoMessage == [user |-> 0, media_type |-> "none", size |-> 0, verdict |-> "none"]

\* The checks of handle_media, in the order in which it makes them.
VerdictNoSizeCheck(ua, us, u, kind, size, t0) ==
    IF check_limits(ua, u, t0).daily THEN "daily"
    ELSE IF check_limits(ua, u, t0).hourly THEN "hourly"
    ELSE IF get_user_state(us, u)[u].mode = "None" THEN "no_mode"
    ELSE IF MediaType(kind) = "none" THEN "unsupported"
    ELSE IF size < MIN_FILE_SIZE THEN "too_small"
    ELSE "admitted"
VerdictMaxExclusive(ua, us, u, kind, size, t0) ==
    IF check_limits(ua, u, t0).daily THEN "daily"
    ELSE IF check_limits(ua, u, t0).hourly THEN "hourly"
    ELSE IF get_user_state(us, u)[u].mode = "None" THEN "no_mode"
    ELSE IF MediaType(kind) = "none" THEN "unsupported"
    ELSE IF size >= MaxSize(MediaType(kind)) THEN "too_large"
    ELSE IF size < MIN_FILE_SIZE THEN "too_small"
    ELSE "admitted"
VerdictHourlyFirst(ua, us, u, kind, size, t0) ==
    IF check_limits(ua, u, t0).hourly THEN "hourly"
    ELSE IF check_limits(ua, u, t0).daily THEN "daily"
    ELSE IF get_user_state(us, u)[u].mode = "None" THEN "no_mode"
    ELSE IF MediaType(kind) = "none" THEN "unsupported"
    ELSE IF size > MaxSize(MediaType(kind)) THEN "too_large"
    ELSE IF size < MIN_FILE_SIZE THEN "too_small"
    ELSE "admitted"
Verdict(ua, us, u, kind, size, t0) ==
    IF check_limits(ua, u, t0).daily THEN "daily"
    ELSE IF check_limits(ua, u, t0).hourly THEN "hourly"
    ELSE IF get_user_state(us, u)[u].mode = "None" THEN "no_mode"
    ELSE IF MediaType(kind) = "none" THEN "unsupported"
    ELSE IF size > MaxSize(MediaType(kind)) THEN "too_large"
    ELSE IF size < MIN_FILE_SIZE THEN "too_small"
    ELSE "admitted"

\* ---- statistics and result texts -------------------------------------------
Max(a, b) == IF a >= b THEN a ELSE b

\* The document load_stats returns when there is no statistics file
\* (start_time left out: nothing reads it back into a decision).
load_stats ==
    [total_files_processed |-> 0, total_bytes_saved |-> 0, audio_files |-> 0,
     video_files |-> 0, users |-> <<>>, daily_stats |-> <<>>, errors |-> 0]

\* BotStats.update_processing_stats(user_id, file_type, original_size,
\* compressed_size) on the day `today`: the new document. The day's user
\* list is created as a set that is turned into a list at once, and later
\* appended to when the user is not in it.
update_processing_statsUnclamped(st, user_id, file_type, original_size, compressed_size, today) ==
    LET saved == original_size - compressed_size
        u0 == IF user_id \in DOMAIN st.users THEN st.users[user_id]
              ELSE [files |-> 0, bytes_saved |-> 0]
        d0 == IF today \in DOMAIN st.daily_stats THEN st.daily_stats[today]
              ELSE [files |-> 0, users |-> <<>>]
        listed == \E i \in DOMAIN d0.users : d0.users[i] = user_id
    IN [st EXCEPT
          !.total_files_processed = @ + 1,
          !.total_bytes_saved = @ + saved,
          !.audio_files = IF file_type = "audio" THEN @ + 1 ELSE @,
          !.video_files = IF file_type = "video" THEN @ + 1 ELSE @,
          !.users = Put(@, user_id, [files |-> u0.files + 1,
                                     bytes_saved |-> u0.bytes_saved + saved]),
          !.daily_stats = Put(@, today,
              [files |-> d0.files + 1,
               users |-> IF listed THEN d0.users ELSE Append(d0.users, user_id)])]
update_processing_stats(st, user_id, file_type, original_size, compressed_size, today) ==
    LET saved == Max(0, original_size - compressed_size)
        u0 == IF user_id \in DOMAIN st.users THEN st.users[user_id]
              ELSE [files |-> 0, bytes_saved |-> 0]
        d0 == IF today \in DOMAIN st.daily_stats THEN st.daily_stats[today]
              ELSE [files |-> 0, users |-> <<>>]
        listed == \E i \in DOMAIN d0.users : d0.users[i] = user_id
    IN [st EXCEPT
          !.total_files_processed = @ + 1,
          !.total_bytes_saved = @ + saved,
          !.audio_files = IF file_type = "audio" THEN @ + 1 ELSE @,
          !.video_files = IF file_type = "video" THEN @ + 1 ELSE @,
          !.users = Put(@, user_id, [files |-> u0.files + 1,
                                     bytes_saved |-> u0.bytes_saved + saved]),
          !.daily_stats = Put(@, today,
              [files |-> d0.files + 1,
               users |-> IF listed THEN d0.users ELSE Append(d0.users, user_id)])]

\* datetime.now().strftime("%Y-%m-%d"): the number of the day
Today(t0) == t0 \div DAY

\* a * b = q * c + r with 0 <= r < c, for 0 <= a < c, 0 <= b and
\* 0 < c <= 2^30, by doubling, so that no intermediate value exceeds 2^31
\* (Python's integers have no such limit).
RECURSIVE MulMod(_, _, _)
MulMod(a, b, c) ==
    IF b = 0 THEN [q |-> 0, r |-> 0]
    ELSE LET h == MulMod(a, b \div 2, c)
             carry2 == h.r >= c - h.r
             r2 == IF carry2 THEN h.r - (c - h.r) ELSE h.r + h.r
             q2 == 2 * h.q + (IF carry2 THEN 1 ELSE 0)
             add == IF b % 2 = 1 THEN a ELSE 0
             carry3 == r2 >= c - add
         IN [q |-> q2 + (IF carry3 THEN 1 ELSE 0),
             r |-> IF carry3 THEN r2 - (c - add) ELSE r2 + add]

\* The same for any a >= 0.
MulDivMod(a, b, c) ==
    LET m == MulMod(a % c, b, c) IN [q |-> (a \div c) * b + m.q, r |-> m.r]

\* The decimal rounding of the format specifications .2f and .1f, applied to
\* q + r / c: to the nearest, a tie to the even neighbour.
RoundHalfEven(q, r, c) ==
    IF r < c - r THEN q
    ELSE IF r > c - r THEN q + 1
    ELSE IF q % 2 = 0 THEN q ELSE q + 1

\* size_names[i] and 1024 ** i for the i that the loop of format_file_size
\* stops at
UnitOf(size_bytes) ==
    IF size_bytes < 1024 THEN "B"
    ELSE IF size_bytes < 1048576 THEN "KB"
    ELSE IF size_bytes < 1073741824 THEN "MB"
    ELSE "GB"
UnitSize(unit) ==
    CASE unit = "B" -> 1 [] unit = "KB" -> 1024 [] unit = "MB" -> 1048576
      [] unit = "GB" -> 1073741824

\* format_file_size(size_bytes): the unit and the number printed before it,
\* in hundredths ("0 B" for 0). A negative size_bytes never enters the loop
\* and is printed as a negative number of bytes. The divisions by 1024.0 are
\* exact in binary floating point.
format_file_size(size_bytes) ==
    IF size_bytes < 1024
    THEN [hundredths |-> size_bytes * 100, unit |-> "B"]
    ELSE LET m == MulDivMod(size_bytes, 100, UnitSize(UnitOf(size_bytes)))
         IN [hundredths |-> RoundHalfEven(m.q, m.r, UnitSize(UnitOf(size_bytes))),
             unit |-> UnitOf(size_bytes)]

\* compression_ratio = ((original_size - compressed_size) / original_size) * 100
\* if original_size > 0 else 0, as {compression_ratio:.1f} prints it: in
\* tenths of a percent. (The rounding is that of the exact quotient; the
\* floating-point value can differ from it in its last binary digit.)
compression_ratioOfCompressed(original_size, compressed_size) ==
    IF compressed_size > 0
    THEN LET d == original_size - compressed_size
             m == MulDivMod(IF d >= 0 THEN d ELSE -d, 1000, compressed_size)
         IN IF d >= 0 THEN RoundHalfEven(m.q, m.r, compressed_size)
            ELSE -RoundHalfEven(m.q, m.r, compressed_size)
    ELSE 0
compression_ratio(original_size, compressed_size) ==
    IF original_size > 0
    THEN LET d == original_size - compressed_size
             m == MulDivMod(IF d >= 0 THEN d ELSE -d, 1000, original_size)
         IN IF d >= 0 THEN RoundHalfEven(m.q, m.r, original_size)
            ELSE -RoundHalfEven(m.q, m.r, original_size)
    ELSE 0

\* The amounts of the "Compression completed" text and of the caption
NoReport == [sent |-> FALSE]
result_text(original_size, compressed_size) ==
    [sent |-> TRUE,
     original_size |-> original_size, compressed_size |-> compressed_size,
     original |-> format_file_size(original_size),
     compressed |-> format_file_size(compressed_size),
     saved |-> format_file_size(original_size - compressed_size),
     ratio |-> compression_ratio(original_size, compressed_size)]

\* No callback has been answered yet.
NoAnswer == [user |-> 0, data |-> <<"none", "none">>, text |-> "none"]

\* ---- initial state ---------------------------------------------------------
\* message.from_user.id of the user whose messages, callbacks and job are
\* followed
Sender == 1


\* No call of process_media_file_koyeb is being followed.
NoRun == [pc |-> "idle"]

\* The bot with nothing active, queued or recorded; after its start, with no
\* session either.
InitIdle ==
    /\ active_processes = <<>>
    /\ queue = <<>>
    /\ submitted = 0
    /\ owner = [j \in Jobs |-> 0]
    /\ status = [j \in Jobs |-> "none"]
    /\ result = [j \in Jobs |-> "none"]
    /\ root = [j \in Jobs |-> 0]
    /\ chain_exc = [j \in Jobs |-> "none"]
    /\ error_reply = NoReply
    /\ cancel_requested = 0
    /\ now = 0
    /\ ticks = 0
    /\ user_activity = <<>>
    /\ last = NoMessage
    /\ stats = load_stats
    /\ report = NoReport
    /\ answer = NoAnswer

InitBot == InitIdle /\ user_states = <<>>

Init == InitBot /\ run = NoRun

\* ---- actions ---------------------------------------------------------------
\* add_to_queue(user_id, process_func, ...) up to its first suspension
\* (`await task`) or its `return "queued"`.
add_to_queue(u) ==
    /\ LET j == submitted + 1 IN
        /\ submitted' = j
        /\ owner' = [owner EXCEPT ![j] = u]
        /\ IF HasFreeSlot(active_processes)
           THEN /\ active_processes' = Put(active_processes, u, j)
                /\ status' = [status EXCEPT ![j] = "running"]
                /\ root' = [root EXCEPT ![j] = j]
                /\ queue' = queue
           ELSE /\ queue' = Append(queue, j)
                /\ status' = [status EXCEPT ![j] = "queued"]
                /\ root' = root
                /\ active_processes' = active_processes
    /\ UNCHANGED <<result, chain_exc, error_reply>>

\* The task of job j returns (process_media_file_koyeb handled its own outcome).
TaskReturn(j) ==
    /\ status[j] = "running"
    /\ status' = [status EXCEPT ![j] = "ended"]
    /\ result' = [result EXCEPT ![j] = "ok"]
    /\ UNCHANGED <<active_processes, queue, submitted, owner, root, chain_exc,
                   error_reply>>

\* The task of job j raises: the first reply_text of process_media_file_koyeb
\* (before its try) or the reply_text inside its except handler failed.
TaskRaise(j) ==
    /\ status[j] = "running"
    /\ status' = [status EXCEPT ![j] = "ended"]
    /\ result' = [result EXCEPT ![j] = "exc"]
    /\ UNCHANGED <<active_processes, queue, submitted, owner, root, chain_exc,
                   error_reply>>

\* What is kept of the jobs once the frame awaiting job j has been resumed and
\* has either suspended on the promoted job k or (k = 0) unwound: a job whose
\* task is over and whose handle_media invocation has returned is discarded;
\* the job at the root of a chain that goes on is kept, as its handle_media
\* frame is, until the chain unwinds.
Keep(f, j, k) ==
    [i \in Jobs |->
        IF k # 0 /\ i = j /\ root[j] = j THEN IF f = "status" THEN "chain"
                                              ELSE IF f = "owner" THEN owner[j]
                                              ELSE result[j]
        ELSE IF i = j \/ (k = 0 /\ i = root[j])
             THEN IF f = "status" THEN "done"
                  ELSE IF f = "owner" THEN 0 ELSE "none"
        ELSE IF f = "status" THEN (IF i = k THEN "running" ELSE status[i])
             ELSE IF f = "owner" THEN owner[i] ELSE result[i]]

\* The frame awaiting job j is resumed: its finally clause pops the user's
\* entry and calls process_queue, which either promotes the head of the queue
\* and suspends on it, or returns; in the latter case the whole chain unwinds
\* to handle_media, whose `except Exception` sends the error reply when an
\* exception is pending.
Resume(j) ==
    /\ status[j] = "ended"
    /\ LET f == Finally(active_processes, queue, owner[j], result[j] = "exc")
           k == f.promoted
           r == root[j]
           pending == Pending(j, r)
       IN /\ active_processes' = f.active
          /\ queue' = f.queue
          /\ status' = Keep("status", j, k)
          /\ owner' = Keep("owner", j, k)
          /\ result' = Keep("result", j, k)
          /\ root' = [i \in Jobs |-> IF i = k THEN r
                                     ELSE IF i = j \/ (k = 0 /\ i = r) THEN 0
                                     ELSE root[i]]
          /\ chain_exc' = [i \in Jobs |-> IF i = k THEN pending
                                          ELSE IF i = j THEN "none"
                                          ELSE chain_exc[i]]
          /\ error_reply' = IF k = 0 /\ pending # "none"
                            THEN [user |-> owner[r], own_result |-> result[r],
                                  raised_by |-> pending]
                            ELSE error_reply
    /\ UNCHANGED submitted

\* A submitter asks for the cancellation of their queued job j.
\* ProcessingQueue has no operation that takes a job out of the queue other
\* than process_queue, and no handler of the bot receives such a request: the
\* request leaves the scheduler as it is.
CancelRequest(j) ==
    /\ status[j] = "queued"
    /\ cancel_requested' = j
    /\ UNCHANGED <<schedVars, gateVars, run, outVars>>

\* handle_media for a message of user u carrying a file of the given kind and
\* size, up to its first suspension: a rejection replies and returns; an
\* admission records the activity and calls add_to_queue.
handle_mediaCountsFirst(u, kind, size) ==
    LET v == Verdict(user_activity, user_states, u, kind, size, now) IN
    /\ last' = [user |-> u, media_type |-> MediaType(kind), size |-> size,
                verdict |-> v]
    /\ user_states' = IF v \in {"daily", "hourly"} THEN user_states
                      ELSE get_user_state(user_states, u)
    /\ user_activity' = IF v \in {"daily", "hourly", "no_mode"} THEN user_activity
                        ELSE update_activity(user_activity, u, now)
    /\ IF v = "admitted"
       THEN /\ submitted < MaxJobs
            /\ add_to_queue(u)
       ELSE UNCHANGED schedVars
    /\ UNCHANGED <<now, ticks, cancel_requested, run, outVars>>
handle_media(u, kind, size) ==
    LET v == Verdict(user_activity, user_states, u, kind, size, now) IN
    /\ last' = [user |-> u, media_type |-> MediaType(kind), size |-> size,
                verdict |-> v]
    /\ user_states' = IF v \in {"daily", "hourly"} THEN user_states
                      ELSE get_user_state(user_states, u)
    /\ IF v = "admitted"
       THEN /\ submitted < MaxJobs
            /\ user_activity' = update_activity(user_activity, u, now)
            /\ add_to_queue(u)
       ELSE UNCHANGED <<user_activity, schedVars>>
    /\ UNCHANGED <<now, ticks, cancel_requested, run, outVars>>

\* The keys of AUDIO_PRESETS and of VIDEO_PRESETS
PresetKeys(media_type) ==
    IF media_type = "audio"
    THEN {"ultra_high", "high", "medium", "low", "ultra_low"}
    ELSE {"ultra_high", "high", "medium", "low", "ultra_low"}

\* What callback_handler answers the callback with: "ok" (the closing
\* answer("✅")), "unavailable" (the refusal of the video mode, followed by
\* return) or "error" (the answer of the except clause, here after the
\* KeyError of AUDIO_PRESETS[quality] / VIDEO_PRESETS[quality]).
AnswerText(data, available) ==
    IF data[1] = "mode"
    THEN IF data[2] = "video" /\ ~available THEN "unavailable" ELSE "ok"
    ELSE IF data[2] \in PresetKeys(data[1]) THEN "ok" ELSE "error"

\* callback_handler for the data "mode_<mode>" (data = <<"mode", mode>>) and
\* "<preset_type>_<quality>" (data = <<preset_type, quality>>); available is
\* the value of the global ffmpeg_available, set once when the bot starts.
\* The mode is stored before the availability is tested, and the preset name
\* before it is looked up in the table of presets. The dict written to is
\* the one a job of the user admitted since the last /start holds.
callback_handler(u, data, available) ==
    /\ user_states' =
          Put(user_states, u,
              CASE data[1] = "mode" ->
                     [get_user_state(user_states, u)[u] EXCEPT !.mode = data[2]]
                [] data[1] = "audio" ->
                     [get_user_state(user_states, u)[u] EXCEPT !.audio_preset = data[2]]
                [] data[1] = "video" ->
                     [get_user_state(user_states, u)[u] EXCEPT !.video_preset = data[2]])
    /\ answer' = [user |-> u, data |-> data, text |-> AnswerText(data, available)]
    /\ run' = IF run.pc # "idle" /\ u = Sender /\ run.shared /\ data[1] = run.media_type
              THEN [run EXCEPT !.preset = data[2]]
              ELSE run
    /\ UNCHANGED <<schedVars, cancel_requested, now, ticks, user_activity, last,
                   stats, report>>

\* callback_handler for the data "mode_audio" / "mode_video" of a bot that
\* found ffmpeg when it started: the mode is stored in the user's state.
callback_mode(u, mode) == callback_handler(u, <<"mode", mode>>, TRUE)

\* The /start command: user_states.pop(user_id, None)
start(u) ==
    /\ u \in DOMAIN user_states
    /\ user_states' = Pop(user_states, u)
    /\ run' = IF run.pc # "idle" /\ u = Sender THEN [run EXCEPT !.shared = FALSE]
              ELSE run
    /\ UNCHANGED <<schedVars, cancel_requested, now, ticks, user_activity, last, outVars>>

\* Time passes.
Tick(d) ==
    /\ ticks < MaxTicks
    /\ ticks' = ticks + 1
    /\ now' = now + d
    /\ UNCHANGED <<schedVars, cancel_requested, user_activity, user_states, last,
                   run, outVars>>

\* ---- specifications --------------------------------------------------------
\* One step of the scheduler: a call of add_to_queue (at most `limit` of them
\* in a run), the end of a task, the resumption of the frame awaiting it.
Submit(u) ==
    /\ submitted < MaxJobs
    /\ add_to_queue(u)
    /\ UNCHANGED <<cancel_requested, gateVars, run, outVars>>

SubmitBurst(u) ==
    /\ submitted < BurstJobs
    /\ add_to_queue(u)
    /\ UNCHANGED <<cancel_requested, gateVars, run, outVars>>

SubmitFair(u) ==
    /\ submitted < FairJobs
    /\ add_to_queue(u)
    /\ UNCHANGED <<cancel_requested, gateVars, run, outVars>>

Return(j) == TaskReturn(j) /\ UNCHANGED <<cancel_requested, gateVars, run, outVars>>

Raise(j) == TaskRaise(j) /\ UNCHANGED <<cancel_requested, gateVars, run, outVars>>

Resumed(j) == Resume(j) /\ UNCHANGED <<cancel_requested, gateVars, run, outVars>>

Next ==
    \/ \E u \in Candidates : Submit(u)
    \/ \E j \in Jobs : Return(j)
    \/ \E j \in Jobs : Raise(j)
    \/ \E j \in Jobs : Resumed(j)

Spec == Init /\ [][Next]_vars

NextBurst ==
    \/ \E u \in Candidates : SubmitBurst(u)
    \/ \E j \in Jobs : Return(j)
    \/ \E j \in Jobs : Raise(j)
    \/ \E j \in Jobs : Resumed(j)

SpecBurst == Init /\ [][NextBurst]_vars

\* The scheduler under the scheduling of the event loop: a started task ends
\* (the ffmpeg run of process_media_file_koyeb is bounded by
\* Config.PROCESS_TIMEOUT), and a coroutine awaiting a task that has ended is
\* resumed.
NextFair ==
    \/ \E u \in Candidates : SubmitFair(u)
    \/ \E j \in Jobs : Return(j)
    \/ \E j \in Jobs : Raise(j)
    \/ \E j \in Jobs : Resumed(j)

SpecFair ==
    /\ Init /\ [][NextFair]_vars
    /\ WF_vars(\E j \in Jobs : Return(j) \/ Raise(j))
    /\ WF_vars(\E j \in Jobs : Resumed(j))

NextCancel ==
    \/ \E u \in Candidates : Submit(u)
    \/ \E j \in Jobs : Return(j)
    \/ \E j \in Jobs : Raise(j)
    \/ \E j \in Jobs : Resumed(j)
    \/ \E j \in Jobs : CancelRequest(j)

SpecCancel == Init /\ [][NextCancel]_vars

\* The admission gate, followed for one user (handle_media reads and writes
\* only the window and the session of the message's sender): the user's media
\* messages, mode selections and /start commands, and the passing of time in
\* steps of half an hour and of 23 hours. The jobs it admits are handed to
\* add_to_queue; what becomes of them is the subject of Spec.
NextGate ==
    \/ \E kind \in MessageKinds : \E size \in FileSizes(kind) :
          handle_media(Sender, kind, size)
    \/ \E mode \in {"audio", "video"} : callback_mode(Sender, mode)
    \/ start(Sender)
    \/ \E d \in {HOUR \div 2, DAY - HOUR} : Tick(d)

SpecGate == Init /\ [][NextGate]_vars

\* message.from_user.id of the second user that SpecPair follows
Other == 2

\* The messages tried in SpecPair: an audio of the least admissible size and
\* one of one byte more than the maximum.
PairKinds == {"audio"}

PairSizes(kind) == {MIN_FILE_SIZE, MaxSize(MediaType(kind)) + 1}

\* The admission gate followed for two users at once: their media messages
\* and mode selections, and the passing of time.
NextPair ==
    \/ \E u \in {Sender, Other} : \E kind \in PairKinds : \E size \in PairSizes(kind) :
          handle_media(u, kind, size)
    \/ \E u \in {Sender, Other} : callback_mode(u, "audio")
    \/ \E d \in {HOUR \div 2, DAY - HOUR} : Tick(d)

SpecPair == Init /\ [][NextPair]_vars

\* ---- process_media_file_koyeb ----------------------------------------------
\* Bytes in the megabyte of file_size_mb = media_file.file_size / (1024 * 1024);
\* the division by a power of two is exact, so file_size_mb <= n holds
\* exactly when file_size <= n * MB.
MB == 1048576

\* get_optimal_settings(file_size_mb, media_type), on the size in bytes
get_optimal_settingsLt(file_size, media_type) ==
    IF media_type = "audio"
    THEN IF file_size < 5 * MB THEN "ultra_high"
         ELSE IF file_size < 15 * MB THEN "high"
         ELSE IF file_size < 30 * MB THEN "medium"
         ELSE IF file_size < 60 * MB THEN "low"
         ELSE "ultra_low"
    ELSE IF file_size < 25 * MB THEN "ultra_high"
         ELSE IF file_size < 75 * MB THEN "high"
         ELSE IF file_size < 150 * MB THEN "medium"
         ELSE IF file_size < 300 * MB THEN "low"
         ELSE "ultra_low"
get_optimal_settings(file_size, media_type) ==
    IF media_type = "audio"
    THEN IF file_size <= 5 * MB THEN "ultra_high"
         ELSE IF file_size <= 15 * MB THEN "high"
         ELSE IF file_size <= 30 * MB THEN "medium"
         ELSE IF file_size <= 60 * MB THEN "low"
         ELSE "ultra_low"
    ELSE IF file_size <= 25 * MB THEN "ultra_high"
         ELSE IF file_size <= 75 * MB THEN "high"
         ELSE IF file_size <= 150 * MB THEN "medium"
         ELSE IF file_size <= 300 * MB THEN "low"
         ELSE "ultra_low"

\* compress_audio_koyeb / compress_video_koyeb with the given preset, when the
\* ffmpeg run, if it comes to one, ends as `outcome` ("exit0", "nonzero" or
\* "timeout"): a preset that is no key of the table raises KeyError before
\* the command is built, and every exception, subprocess.TimeoutExpired
\* included, is caught and turned into the result False.
compress_koyebDefault(media_type, preset, outcome) ==
    [ffmpeg |-> outcome, success |-> outcome = "exit0"]
compress_koyeb(media_type, preset, outcome) ==
    IF preset \notin PresetKeys(media_type)
    THEN [ffmpeg |-> "not_started", success |-> FALSE]
    ELSE [ffmpeg |-> outcome, success |-> outcome = "exit0"]

\* The ways the ffmpeg run of compress_*_koyeb can end: exit code 0, another
\* exit code, subprocess.TimeoutExpired, or no ffmpeg binary to run
\* (FileNotFoundError).
Outcomes == {"exit0", "nonzero", "timeout", "unavailable"}

\* The ways the ffprobe run of compress_video_koyeb can end: usable JSON, an
\* exception when starting it, a non-zero exit code, output that json.loads
\* or the conversions reject, or its 30 s timeout.
ProbeResults == {"ok", "error", "nonzero", "unparsable", "timeout"}

\* The metadata part of compress_video_koyeb: ffprobe is run only when ffmpeg
\* succeeded, inside try / except: pass, and the result of the function is
\* (success, video_info, None) whatever the probe did.
probe_videoFatal(media_type, success, probe) ==
    IF media_type = "video" /\ success
    THEN [success |-> probe = "ok", probe |-> probe,
          video_info |-> IF probe = "ok" THEN "full" ELSE "empty"]
    ELSE [success |-> success, probe |-> "none", video_info |-> "empty"]
probe_video(media_type, success, probe) ==
    IF media_type = "video" /\ success
    THEN [success |-> TRUE, probe |-> probe,
          video_info |-> IF probe = "ok" THEN "full" ELSE "empty"]
    ELSE [success |-> success, probe |-> "none", video_info |-> "empty"]

\* The test of process_media_file_koyeb after the compression call:
\* `if not success or not os.path.exists(output_file): raise`
SucceededUntested(success, out) == TRUE
Succeeded(success, out) == success /\ out # {}

\* shutil.rmtree(temp_dir, ignore_errors=True): the directory and the input
\* and output files in it are removed.
rmtreeKeepsOutput(temp) == temp \cap {"output"}
rmtree(temp) == {}

\* The sizes of the files followed through process_media_file_koyeb: the
\* limits of handle_media, 10 MB, and the sizes at and next to the
\* thresholds of get_optimal_settings for the media type.
Thresholds(media_type) ==
    IF media_type = "audio" THEN {5, 15, 30, 60} ELSE {25, 75, 150, 300}

RunSizes(media_type) ==
    {MIN_FILE_SIZE, 10 * MB, MaxSize(media_type)}
        \cup {t * MB + d : t \in Thresholds(media_type), d \in {-1, 0, 1}}

\* The values of user_state[f"{media_type}_preset"]: callback_handler stores
\* whatever follows "audio_" / "video_" in the callback data, before it looks
\* the name up (a key of the table, "auto", or a name such as "best").
RequestedPresets ==
    {"ultra_high", "high", "medium", "low", "ultra_low", "auto", "best"}

\* The sizes tried for the output of a file of the given size: a quarter of
\* it, and 200,000 bytes more than it (a re-encoding to a higher bitrate than
\* the input's).
CompressedSizes(size) == {size \div 4, size + 200000}

\* process_media_file_koyeb is called for a file admitted by handle_media
\* with the user_state dict that handle_media got from get_user_state:
\* preset is the value of user_state[f"{media_type}_preset"] in that dict,
\* admitted its value when the file was admitted, and shared tells whether
\* the dict is still the one user_states holds for the user.
StartRun(media_type, size, preset) ==
    [pc |-> "begin", media_type |-> media_type, size |-> size,
     preset |-> preset, admitted |-> preset, shared |-> TRUE,
     resolved |-> "none", temp |-> {}, created |-> {},
     ffmpeg |-> "not_started", probe |-> "none", video_info |-> "none",
     original_size |-> 0, compressed_size |-> 0,
     counted |-> FALSE, delivered |-> FALSE, failed |-> FALSE, raising |-> FALSE]

InitRun ==
    /\ InitBot
    /\ run \in {StartRun(mt, size, p) :
                   mt \in {"audio"}, size \in RunSizes("audio"), p \in RequestedPresets}
               \cup {StartRun(mt, size, p) :
                   mt \in {"video"}, size \in RunSizes("video"), p \in RequestedPresets}

\* message.reply_text("Processing ...") and tempfile.mkdtemp: the reply is
\* outside the try, so its failure escapes the task.
reply_processing(ok) ==
    /\ run.pc = "begin"
    /\ run' = IF ok THEN [run EXCEPT !.pc = "download", !.temp = {"temp_dir"},
                                     !.created = {"temp_dir"}]
              ELSE [run EXCEPT !.pc = "raised"]
    /\ UNCHANGED <<schedVars, cancel_requested, gateVars, outVars>>

\* client.download_media(media_file, input_file); a failed download may leave
\* a part of the file behind.
download_media(ok, partial) ==
    /\ run.pc = "download"
    /\ LET got == IF ok \/ partial THEN {"input"} ELSE {} IN
       run' = [run EXCEPT !.pc = IF ok THEN "status" ELSE "except",
                          !.temp = @ \cup got, !.created = @ \cup got]
    /\ UNCHANGED <<schedVars, cancel_requested, gateVars, outVars>>

\* processing_msg.edit_text("... Compressing...") and the choice of the
\* preset: the stored one, or get_optimal_settings when it is "auto".
resolve_preset(ok) ==
    /\ run.pc = "status"
    /\ run' = IF ok
              THEN [run EXCEPT !.pc = "compress",
                       !.resolved = IF run.preset = "auto"
                                    THEN get_optimal_settings(run.size, run.media_type)
                                    ELSE run.preset]
              ELSE [run EXCEPT !.pc = "except"]
    /\ UNCHANGED <<schedVars, cancel_requested, gateVars, outVars>>

\* The call of compress_*_koyeb, the test `not success or not
\* os.path.exists(output_file)` and, when it passes, update_processing_stats.
\* written: ffmpeg ran and left a (complete or partial) output file, of
\* compressed_size bytes.
compress(outcome, written, probe, compressed_size) ==
    /\ run.pc = "compress"
    /\ LET c == compress_koyeb(run.media_type, run.resolved, outcome)
           p == probe_video(run.media_type, c.success, probe)
           out == IF c.ffmpeg \in {"exit0", "nonzero", "timeout"} /\ written
                  THEN {"output"} ELSE {}
           good == Succeeded(p.success, out)
       IN /\ run' = [run EXCEPT !.pc = IF good THEN "report" ELSE "except",
                                !.ffmpeg = c.ffmpeg,
                                !.probe = p.probe, !.video_info = p.video_info,
                                !.temp = @ \cup out, !.created = @ \cup out,
                                !.counted = good,
                                !.original_size = IF good THEN run.size ELSE @,
                                !.compressed_size =
                                    IF good THEN compressed_size ELSE @]
          /\ stats' = IF good
                      THEN update_processing_stats(stats, Sender, run.media_type,
                               run.size, compressed_size, Today(now))
                      ELSE stats
    /\ UNCHANGED <<schedVars, cancel_requested, gateVars, report, answer>>

\* processing_msg.edit_text("Compression completed ...") with the amounts
\* of the result, and message.reply_audio / reply_video with the output file
\* and the same amounts in its caption.
deliver(ok_edit, ok_send) ==
    /\ run.pc = "report"
    /\ run' = IF ok_edit /\ ok_send
              THEN [run EXCEPT !.pc = "finally", !.delivered = TRUE]
              ELSE [run EXCEPT !.pc = "except"]
    /\ report' = IF ok_edit
                 THEN result_text(run.original_size, run.compressed_size)
                 ELSE report
    /\ UNCHANGED <<schedVars, cancel_requested, gateVars, stats, answer>>

\* The except clause: stats["errors"] += 1, then the failure message by
\* edit_text or, when that fails, by reply_text, whose failure escapes.
except_handler(ok_edit, ok_reply) ==
    /\ run.pc = "except"
    /\ run' = [run EXCEPT !.pc = "finally", !.failed = TRUE,
                          !.raising = ~ok_edit /\ ~ok_reply]
    /\ stats' = [stats EXCEPT !.errors = @ + 1]
    /\ UNCHANGED <<schedVars, cancel_requested, gateVars, report, answer>>

\* The finally clause, and the end of the task.
finally_cleanupUnlessRaising ==
    /\ run.pc = "finally"
    /\ run' = [run EXCEPT !.pc = IF run.raising THEN "raised" ELSE "returned",
                          !.temp = IF run.raising THEN @ ELSE rmtree(@)]
    /\ UNCHANGED <<schedVars, cancel_requested, gateVars, outVars>>
finally_cleanup ==
    /\ run.pc = "finally"
    /\ run' = [run EXCEPT !.pc = IF run.raising THEN "raised" ELSE "returned",
                          !.temp = rmtree(@)]
    /\ UNCHANGED <<schedVars, cancel_requested, gateVars, outVars>>

NextRun ==
    \/ \E ok \in BOOLEAN : reply_processing(ok)
    \/ \E ok \in BOOLEAN : \E partial \in BOOLEAN : download_media(ok, partial)
    \/ \E ok \in BOOLEAN : resolve_preset(ok)
    \/ \E outcome \in Outcomes : \E written \in BOOLEAN : \E probe \in ProbeResults :
          \E compressed_size \in CompressedSizes(run.size) :
             compress(outcome, written, probe, compressed_size)
    \/ \E ok_edit \in BOOLEAN : \E ok_send \in BOOLEAN : deliver(ok_edit, ok_send)
    \/ \E ok_edit \in BOOLEAN : \E ok_reply \in BOOLEAN : except_handler(ok_edit, ok_reply)
    \/ finally_cleanup

SpecRun == InitRun /\ [][NextRun]_vars

\* The task running process_media_file_koyeb is cancelled while it is
\* suspended in one of the awaits of the try block: CancelledError is raised
\* there, `except Exception` does not catch it, and the finally clause runs.
\* (Nothing in the bot cancels a task; the event loop does when it shuts down.)
cancel ==
    /\ run.pc \in {"download", "status", "report"}
    /\ run' = [run EXCEPT !.pc = "finally", !.raising = TRUE]
    /\ UNCHANGED <<schedVars, cancel_requested, gateVars, outVars>>

NextRunCancel ==
    \/ \E ok \in BOOLEAN : reply_processing(ok)
    \/ \E ok \in BOOLEAN : \E partial \in BOOLEAN : download_media(ok, partial)
    \/ \E ok \in BOOLEAN : resolve_preset(ok)
    \/ \E outcome \in Outcomes : \E written \in BOOLEAN : \E probe \in ProbeResults :
          \E compressed_size \in CompressedSizes(run.size) :
             compress(outcome, written, probe, compressed_size)
    \/ \E ok_edit \in BOOLEAN : \E ok_send \in BOOLEAN : deliver(ok_edit, ok_send)
    \/ \E ok_edit \in BOOLEAN : \E ok_reply \in BOOLEAN : except_handler(ok_edit, ok_reply)
    \/ finally_cleanup
    \/ cancel

SpecRunCancel == InitRun /\ [][NextRunCancel]_vars

\* The call of process_media_file_koyeb has ended.
Terminal == run.pc \in {"returned", "raised"}

\* ---- sessions during a job --------------------------------------------------
\* callback_handler for the data "<preset_type>_<quality>": the name is stored
\* in the user's state, before it is looked up in the table of presets. The
\* dict it is stored in is the one a job of the user admitted since the last
\* /start holds.
callback_preset(u, preset_type, quality) ==
    callback_handler(u, <<preset_type, quality>>, TRUE)

\* The size of the file of the job followed in SpecSession
SessionSize == 10 * MB

\* The presets selected before and during the job in SpecSession
SessionPresets == {"high", "low", "auto"}

\* The session of a user whose file of the selected mode has been admitted
Selected(media_type, preset) ==
    IF media_type = "audio"
    THEN [DefaultState EXCEPT !.mode = "audio", !.audio_preset = preset]
    ELSE [DefaultState EXCEPT !.mode = "video", !.video_preset = preset]

\* A job of Sender has just been admitted and its coroutine created.
InitSession ==
    /\ InitIdle
    /\ \E media_type \in {"audio", "video"} : \E preset \in SessionPresets :
          /\ user_states = Put(<<>>, Sender, Selected(media_type, preset))
          /\ run = StartRun(media_type, SessionSize, preset)

\* The job, and the preset selections and /start commands of its user that
\* the event loop handles while the job is queued or suspended in an await.
NextSession ==
    \/ \E preset_type \in {"audio", "video"} : \E quality \in SessionPresets :
          /\ ~Terminal
          /\ callback_preset(Sender, preset_type, quality)
    \/ ~Terminal /\ start(Sender)
    \/ NextRun

SpecSession == InitSession /\ [][NextSession]_vars

\* ---- callbacks ---------------------------------------------------------------
\* The callback data followed in SpecCallback: the two mode buttons, the
\* preset buttons "high" and "low" of both tables, and the data "audio_best"
\* and "video_best", which no button of the bot carries but any client can
\* send.
CallbackData ==
    {<<"mode", "audio">>, <<"mode", "video">>}
        \cup {<<t, q>> : t \in {"audio", "video"}, q \in {"high", "low", "best"}}

\* The callbacks and /start commands of one user, to a bot that found ffmpeg
\* at its start or did not.
NextCallback ==
    \/ \E data \in CallbackData : \E available \in BOOLEAN :
          callback_handler(Sender, data, available)
    \/ start(Sender)

SpecCallback == Init /\ [][NextCallback]_vars

\* ---- the statistics alone --------------------------------------------------
\* The number of update_processing_stats calls followed
MaxUpdates == 3

\* The (original_size, compressed_size) pairs of the calls: a file reduced to
\* a quarter, one that grew, and one that kept its size.
StatSizes == {<<1000000, 250000>>, <<1000000, 1200000>>, <<2048, 2048>>}

\* One call of stats_manager.update_processing_stats, for any user and type.
UpdateStats(u, file_type, original_size, compressed_size) ==
    /\ stats.total_files_processed < MaxUpdates
    /\ stats' = update_processing_stats(stats, u, file_type, original_size,
                                        compressed_size, Today(now))
    /\ UNCHANGED <<schedVars, cancel_requested, gateVars, run, report, answer>>

\* Calls of update_processing_stats by the jobs of any users, on the same day
\* and on later days.
NextStats ==
    \/ \E u \in Users : \E file_type \in {"audio", "video"} : \E p \in StatSizes :
          UpdateStats(u, file_type, p[1], p[2])
    \/ Tick(DAY)

SpecStats == Init /\ [][NextStats]_vars

\* ---- the amounts of one result ---------------------------------------------
\* The values of os.path.getsize(input_file) and os.path.getsize(output_file)
\* that the result is computed for.
ReportSizes ==
    {0, 1, 1023, 1024, 1536, 250000, 333333, 1000000, 1048576, 1200000, 1999999,
     2000000}

\* The statements of process_media_file_koyeb from the two getsize calls to
\* the result text, applied to one pair of sizes.
measure(original_size, compressed_size) ==
    /\ ~report.sent
    /\ stats' = update_processing_stats(stats, Sender, "audio", original_size,
                                        compressed_size, Today(now))
    /\ report' = result_text(original_size, compressed_size)
    /\ UNCHANGED <<schedVars, cancel_requested, gateVars, run, answer>>

NextReport ==
    \E original_size \in ReportSizes : \E compressed_size \in ReportSizes :
        measure(original_size, compressed_size)

SpecReport == Init /\ [][NextReport]_vars

InQueue(q) == {q[i] : i \in 1..Len(q)}

\* ---- claims ------------------------------------------------------------------

\* C1: the number of jobs that have been started and have not yet finished
\* never exceeds max_concurrent.
C1_RunningBounded == Cardinality(Running) <= max_concurrent

\* C2: two jobs of the same user are never running at the same time.
C2_OneRunningPerUser ==
    \A i \in Running : \A j \in Running : owner[i] = owner[j] => i = j

\* C3: active_processes never holds more than max_concurrent entries, and a
\* job leaves the queue only in a step that records it in active_processes.
C3_ActiveBoundedAndPromoted ==
    /\ [](Cardinality(DOMAIN active_processes) <= max_concurrent)
    /\ [][\A j \in InQueue(queue) \ InQueue(queue') :
             /\ owner[j] \in DOMAIN active_processes'
             /\ active_processes'[owner[j]] = j]_vars

\* C3 witness: a job that waited in the queue is recorded in active_processes
\* while the dict is full.
C3_Witness ==
    /\ Cardinality(DOMAIN active_processes) = max_concurrent
    /\ \E j \in Running : root[j] # j /\ active_processes[owner[j]] = j

\* C4: while a job J1 waits in the queue, no job submitted after it by a
\* different user has started.
C4_SubmissionOrder ==
    \A j1 \in Jobs : \A j2 \in Jobs :
        (j1 < j2 /\ status[j1] = "queued" /\ owner[j2] # owner[j1])
            => status[j2] \in {"none", "queued"}

\* C5: process_queue promotes only a job whose user has no running job, and
\* it is the earliest queued job of such a user.
C5_SkipsRunningUsers ==
    [][\A k \in Jobs :
          (status[k] = "queued" /\ status'[k] = "running") =>
              /\ \A i \in Running : owner[i] # owner[k]
              /\ \A i \in InQueue(queue) :
                    (i < k) => \E r \in Running : owner[r] = owner[i]]_vars

\* C6: the step that does the completion bookkeeping of a job (the pop of its
\* user's entry) starts the head of the queue when the queue is non-empty
\* and the pop leaves a free slot.
C6_PromotedInSameStep ==
    [][\A j \in Jobs :
          (status[j] = "ended" /\ status'[j] # "ended"
              /\ queue # <<>>
              /\ Cardinality(DOMAIN Pop(active_processes, owner[j])) < max_concurrent)
          => /\ status'[Head(queue)] = "running"
             /\ queue' = Tail(queue)
             /\ owner[Head(queue)] \in DOMAIN active_processes'
             /\ active_processes'[owner[Head(queue)]] = Head(queue)]_vars

\* C6 witness: a promoted job is running, in the chain of a job whose
\* bookkeeping is done.
C6_Witness ==
    \E j \in Jobs : \E k \in Running :
        status[j] = "chain" /\ root[k] = j /\ k # j

\* C7: when the task of job j raised, the resumption of its awaiter removes
\* the entry of j's user (it is there afterwards only for the job promoted in
\* that step), promotes the head of the queue when there is a free slot, and
\* leaves every other running job running and every queued job queued or
\* started; and no job is left in the queue for ever.
C7_RaiseStillBooked ==
    /\ []<>(queue = <<>>)
    /\ [][\A j \in Jobs :
             (status[j] = "ended" /\ result[j] = "exc" /\ status'[j] # "ended") =>
                 /\ owner[j] \in DOMAIN active_processes' =>
                       (queue # <<>> /\ active_processes'[owner[j]] = Head(queue))
                 /\ (queue # <<>> /\
                     Cardinality(DOMAIN Pop(active_processes, owner[j])) < max_concurrent)
                       => (status'[Head(queue)] = "running" /\ queue' = Tail(queue))
                 /\ \A i \in Jobs \ {j} :
                       /\ status[i] = "running" => status'[i] = "running"
                       /\ status[i] = "queued" => status'[i] \in {"queued", "running"}]_vars

\* C7 witness: a job promoted by the bookkeeping of a job whose task raised
\* is running.
C7_Witness == \E k \in Running : chain_exc[k] # "none"

\* C8: handle_media sends its error reply to a user whose own job returned
\* normally only for an exception of that user's own jobs, never for the
\* failure of another user's job.
C8_ErrorToOwnSubmitter ==
    ~(error_reply.own_result = "ok" /\ error_reply.raised_by = "other")

\* C9: a queued job whose cancellation was requested is out of the queue, in
\* the terminal state Cancelled, and is never started.
C9_QueuedJobCancelled ==
    cancel_requested # 0 =>
        /\ cancel_requested \notin InQueue(queue)
        /\ status[cancel_requested] = "cancelled"

\* The message is a media file larger than the maximum for its kind.
Oversize(kind, size) ==
    MediaType(kind) # "none" /\ size > MaxSize(MediaType(kind))

\* C10 (as claimed): a file larger than the maximum for its media kind, sent
\* by a user who has selected a mode, is rejected as too large whatever the
\* state of the user's rate-limit window.
C10_OversizeAlwaysTooLarge ==
    [][\A kind \in MessageKinds : \A size \in FileSizes(kind) :
          (/\ Oversize(kind, size)
           /\ get_user_state(user_states, Sender)[Sender].mode # "None"
           /\ handle_media(Sender, kind, size))
          => last'.verdict = "too_large"]_vars

\* C10 (amended): a file larger than the maximum for its media kind is never
\* admitted: the user's window and the scheduler are left as they are, and the
\* rejection reported is the daily one when the daily cap is reached, else the
\* hourly one when the hourly cap is reached, else the request to select a
\* mode when none is selected, and only otherwise "too large".
C10_OversizeNeverAdmitted ==
    [][\A kind \in MessageKinds : \A size \in FileSizes(kind) :
          (/\ Oversize(kind, size)
           /\ last'.size = size
           /\ handle_media(Sender, kind, size))
          => /\ last'.verdict =
                   IF check_limits(user_activity, Sender, now).daily THEN "daily"
                   ELSE IF check_limits(user_activity, Sender, now).hourly THEN "hourly"
                   ELSE IF get_user_state(user_states, Sender)[Sender].mode = "None"
                        THEN "no_mode"
                   ELSE "too_large"
             /\ UNCHANGED <<user_activity, schedVars>>]_vars

\* C10 witness: an oversize file was rejected as too large while the sender's
\* window held an admission.
C10_Witness ==
    /\ last.media_type # "none"
    /\ last.size > MaxSize(last.media_type)
    /\ last.verdict = "too_large"
    /\ Sender \in DOMAIN user_activity
    /\ Len(Recent(user_activity[Sender], now, HOUR)) > 0

\* The timestamps of user u's window that lie in the trailing span at time t0.
Window(ua, u, t0, span) ==
    IF u \in DOMAIN ua THEN Recent(ua[u], t0, span) ELSE <<>>

\* The message is an audio or video file of an admissible size.
Admissible(kind, size) ==
    /\ MediaType(kind) # "none"
    /\ size >= MIN_FILE_SIZE
    /\ size <= MaxSize(MediaType(kind))

\* The step is handle_media for a message of Sender with this kind and size,
\* and cond holds before it.
Handled(kind, size, cond) ==
    /\ last'.size = size
    /\ last'.media_type = MediaType(kind)
    /\ cond
    /\ handle_media(Sender, kind, size)

\* The job that the handle_media step has handed to add_to_queue.
Enqueued(u) ==
    /\ submitted' = submitted + 1
    /\ owner'[submitted'] = u
    /\ status'[submitted'] \in {"running", "queued"}

\* C11 (as claimed): a file of an admissible size sent by a user whose window
\* is empty is accepted: an admission timestamp is recorded and the job is
\* submitted to the processing queue.
C11_EmptyWindowAccepted ==
    [][\A kind \in MessageKinds : \A size \in FileSizes(kind) :
          Handled(kind, size,
                  /\ Admissible(kind, size)
                  /\ Window(user_activity, Sender, now, DAY) = <<>>)
          => /\ last'.verdict = "admitted"
             /\ user_activity'[Sender] = <<now>>
             /\ Enqueued(Sender)]_vars

\* C11 (amended): a file of an admissible size sent by a user who has
\* selected a compression mode and whose window is empty is accepted: the
\* admission timestamp is recorded (the window is then exactly that
\* timestamp) and the job is submitted to the processing queue.
C11_EmptyWindowAcceptedWithMode ==
    [][\A kind \in MessageKinds : \A size \in FileSizes(kind) :
          Handled(kind, size,
                  /\ Admissible(kind, size)
                  /\ Window(user_activity, Sender, now, DAY) = <<>>
                  /\ get_user_state(user_states, Sender)[Sender].mode # "None")
          => /\ last'.verdict = "admitted"
             /\ user_activity'[Sender] = <<now>>
             /\ Enqueued(Sender)]_vars

\* C11 witness: a file of exactly the maximum size was admitted by a user
\* whose earlier admission had left the trailing 24 hours.
C11_Witness ==
    /\ last.verdict = "admitted"
    /\ last.size = MaxSize(last.media_type)
    /\ Sender \in DOMAIN user_activity
    /\ user_activity[Sender] = <<now>>
    /\ submitted = 2

\* The oldest of the n latest admissions in the list ts.
OldestOfLast(ts, n) == ts[Len(ts) - n + 1]

\* C12: with N = MAX_FILES_PER_HOUR and the daily cap not reached, a message
\* of a user who has N admissions in the trailing hour is rejected as hourly
\* rate-limited; and once the oldest of the user's N latest admissions is at
\* least one hour old, a message is no longer rate-limited, and it is
\* admitted when a mode is selected and the file is of an admissible size.
C12_HourlyCapSlides ==
    [][\A kind \in MessageKinds : \A size \in FileSizes(kind) :
          /\ Handled(kind, size,
                 /\ Len(Window(user_activity, Sender, now, DAY)) < MAX_FILES_PER_DAY
                 /\ Len(Window(user_activity, Sender, now, HOUR)) = MAX_FILES_PER_HOUR)
             => last'.verdict = "hourly"
          /\ Handled(kind, size,
                 /\ Len(Window(user_activity, Sender, now, DAY)) < MAX_FILES_PER_DAY
                 /\ Sender \in DOMAIN user_activity
                 /\ Len(user_activity[Sender]) >= MAX_FILES_PER_HOUR
                 /\ now - OldestOfLast(user_activity[Sender], MAX_FILES_PER_HOUR) >= HOUR)
             => /\ last'.verdict \notin {"hourly", "daily"}
                /\ (Admissible(kind, size) /\ user_states'[Sender].mode # "None")
                      => (last'.verdict = "admitted" /\ Enqueued(Sender))]_vars

\* C12 witness: N admissions were made within one hour, and a further file
\* has been admitted exactly one hour after the oldest of them.
C12_Witness ==
    /\ last.verdict = "admitted"
    /\ Sender \in DOMAIN user_activity
    /\ Len(user_activity[Sender]) = MAX_FILES_PER_HOUR + 1
    /\ user_activity[Sender][MAX_FILES_PER_HOUR] - user_activity[Sender][1] < HOUR
    /\ user_activity[Sender][MAX_FILES_PER_HOUR + 1] = now
    /\ now - user_activity[Sender][1] = HOUR

\* C13: at every moment the admissions of a user in the trailing hour number
\* at most MAX_FILES_PER_HOUR and those in the trailing 24 hours at most
\* MAX_FILES_PER_DAY.
C13_CapsNeverExceeded ==
    \A u \in DOMAIN user_activity :
        /\ Len(Recent(user_activity[u], now, HOUR)) <= MAX_FILES_PER_HOUR
        /\ Len(Recent(user_activity[u], now, DAY)) <= MAX_FILES_PER_DAY

\* C13 witness: a user stands at the hourly and at the daily cap at once.
C13_Witness ==
    /\ Len(Window(user_activity, Sender, now, HOUR)) = MAX_FILES_PER_HOUR
    /\ Len(Window(user_activity, Sender, now, DAY)) = MAX_FILES_PER_DAY

\* C14: a message of a user who has reached both the hourly and the daily
\* cap is rejected with the daily rejection.
C14_DailyReportedFirst ==
    [][\A kind \in MessageKinds : \A size \in FileSizes(kind) :
          Handled(kind, size,
                  /\ Len(Window(user_activity, Sender, now, HOUR)) >= MAX_FILES_PER_HOUR
                  /\ Len(Window(user_activity, Sender, now, DAY)) >= MAX_FILES_PER_DAY)
          => last'.verdict = "daily"]_vars

\* C14 witness: a message was rejected with the daily rejection while the
\* hourly cap was reached too.
C14_Witness ==
    /\ last.verdict = "daily"
    /\ Len(Window(user_activity, Sender, now, HOUR)) >= MAX_FILES_PER_HOUR
    /\ Len(Window(user_activity, Sender, now, DAY)) >= MAX_FILES_PER_DAY

\* Every timestamp of user u's window lies in the trailing 24 hours at t0.
Pruned(ua, u, t0) ==
    u \in DOMAIN ua => \A i \in 1..Len(ua[u]) : t0 - ua[u][i] < DAY

\* C15: after handle_media has handled a message of a user (it always calls
\* check_limits, and update_activity when it admits), the user's window
\* contains only timestamps of the trailing 24 hours.
C15_WindowPrunedOnAccess ==
    [][\A kind \in MessageKinds : \A size \in FileSizes(kind) :
          Handled(kind, size, TRUE) => Pruned(user_activity', Sender, now')]_vars

\* C16: a message that handle_media rejects leaves the user's window, the
\* queue and active_processes as they are, and submits no job.
C16_RejectionChangesNothing ==
    [][\A kind \in MessageKinds : \A size \in FileSizes(kind) :
          (Handled(kind, size, TRUE) /\ last'.verdict # "admitted")
          => UNCHANGED <<user_activity, queue, active_processes, submitted,
                         owner, status>>]_vars

\* C16 witness: a message has been rejected for a reason other than the rate
\* limits while the sender has admissions in the window and a running job.
C16_Witness ==
    /\ last.verdict \in {"no_mode", "unsupported", "too_large", "too_small"}
    /\ Window(user_activity, Sender, now, DAY) # <<>>
    /\ Sender \in DOMAIN active_processes

\* Windows that another user might have at time t0: empty, one admission,
\* enough admissions to reach both caps.
OtherWindows(t0) ==
    {<<>>, <<t0>>, [i \in 1..MAX_FILES_PER_DAY |-> t0]}

\* C17: handling a message of user u leaves the window of every other user
\* as it is (present or absent, with the same timestamps), and both the
\* flags of check_limits for u and the verdict of handle_media are what they
\* would be with any other window in place of another user's.
C17_NoInterUserInterference ==
    [][\A u \in {Sender, Other} : \A kind \in PairKinds : \A size \in PairSizes(kind) :
          (last'.user = u /\ last'.size = size /\ last'.media_type = MediaType(kind)
              /\ handle_media(u, kind, size))
          => \A w \in Users \ {u} :
                /\ (w \in DOMAIN user_activity') = (w \in DOMAIN user_activity)
                /\ w \in DOMAIN user_activity => user_activity'[w] = user_activity[w]
                /\ \A alt \in OtherWindows(now) :
                      /\ check_limits(Put(user_activity, w, alt), u, now)
                            = check_limits(user_activity, u, now)
                      /\ Verdict(Put(user_activity, w, alt), user_states, u, kind,
                                 size, now) = last'.verdict]_vars

\* C17 witness: a file of one user has been admitted while the other user
\* stands at the hourly cap.
C17_Witness ==
    /\ last.user = Sender
    /\ last.verdict = "admitted"
    /\ Len(Window(user_activity, Other, now, HOUR)) = MAX_FILES_PER_HOUR

\* The threshold table of the auto preset: upper limits in MB and the tier
\* chosen up to each limit; above the last limit the tier is ultra_low.
AutoTable(media_type) ==
    IF media_type = "audio"
    THEN << <<5, "ultra_high">>, <<15, "high">>, <<30, "medium">>, <<60, "low">> >>
    ELSE << <<25, "ultra_high">>, <<75, "high">>, <<150, "medium">>, <<300, "low">> >>

TableTier(media_type, size) ==
    LET T == AutoTable(media_type)
        hits == {i \in 1..Len(T) : size <= T[i][1] * MB}
    IN IF hits = {} THEN "ultra_low"
       ELSE T[CHOOSE i \in hits : \A h \in hits : i <= h][2]

\* The place of a tier in the order of decreasing quality.
Rank(tier) ==
    CASE tier = "ultra_high" -> 1
      [] tier = "high" -> 2
      [] tier = "medium" -> 3
      [] tier = "low" -> 4
      [] tier = "ultra_low" -> 5

\* C18: the preset chosen for an "auto" job is the tier of the threshold
\* table for the file's size and media type; a 10 MB audio file gets high;
\* and no larger file of the same media type gets a tier of higher quality.
C18_AutoPresetTable ==
    (run.pc # "idle" /\ run.preset = "auto" /\ run.resolved # "none") =>
        /\ run.resolved = TableTier(run.media_type, run.size)
        /\ (run.media_type = "audio" /\ run.size = 10 * MB) => run.resolved = "high"
        /\ \A larger \in RunSizes(run.media_type) :
              larger >= run.size =>
                  Rank(get_optimal_settings(larger, run.media_type))
                      >= Rank(run.resolved)

\* C18 witness: the preset of a 10 MB audio file in an "auto" job has been
\* chosen, and it is high.
C18_Witness ==
    /\ run.pc = "compress"
    /\ run.preset = "auto"
    /\ run.media_type = "audio"
    /\ run.size = 10 * MB
    /\ run.resolved = "high"

\* C19: a job whose preset is neither a key of the preset table of its media
\* type nor "auto" never starts ffmpeg, delivers no output and is not counted
\* by update_processing_stats, and it ends in failure.
C19_UnknownPresetFails ==
    (run.pc # "idle" /\ run.preset \notin PresetKeys(run.media_type) \cup {"auto"}) =>
        /\ run.ffmpeg = "not_started"
        /\ ~run.delivered
        /\ ~run.counted
        /\ Terminal => (run.failed \/ run.pc = "raised")

\* C19 witness: a job with the preset "best" got as far as the compression
\* call and has ended in failure.
C19_Witness ==
    /\ Terminal
    /\ run.preset = "best"
    /\ run.resolved = "best"
    /\ run.failed
    /\ "input" \in run.created

\* C20: a job whose ffmpeg run exceeded PROCESS_TIMEOUT delivers no output
\* and is not counted, and when it has ended it has failed and nothing of its
\* temporary directory is left.
C20_TimeoutFailsAndCleans ==
    (run.pc # "idle" /\ run.ffmpeg = "timeout") =>
        /\ ~run.delivered
        /\ ~run.counted
        /\ run.pc \in {"except", "finally", "returned", "raised"}
        /\ Terminal => (run.failed /\ run.temp = {})

\* C20 witness: a job whose ffmpeg run timed out and left a partial output
\* file has ended.
C20_Witness ==
    /\ Terminal
    /\ run.ffmpeg = "timeout"
    /\ run.failed
    /\ run.created = {"temp_dir", "input", "output"}
    /\ run.temp = {}

\* C21: when a call of process_media_file_koyeb that created its temporary
\* directory has ended, in whatever way (cancellation included), nothing of
\* the directory is left.
C21_TempDirRemovedOnEveryExit ==
    (run.pc # "idle" /\ Terminal /\ "temp_dir" \in run.created) => run.temp = {}

\* C21 witness: a job was cancelled while the output was being delivered
\* (it ended by raising without having gone through the except clause), and
\* its directory, input and output are gone.
C21_Witness ==
    /\ run.pc = "raised"
    /\ ~run.failed
    /\ run.created = {"temp_dir", "input", "output"}
    /\ run.temp = {}

\* C22: when ffmpeg exits with 0 and has written the output but the ffprobe
\* run fails, the compression step of a video job passes with empty
\* metadata (the job goes on to report and deliver), and the delivery that
\* follows, when the transport accepts it, delivers the output.
C22_ProbeFailureNotFatal ==
    [][/\ (run.pc = "compress" /\ run'.pc # "compress"
              /\ run.media_type = "video" /\ run'.ffmpeg = "exit0"
              /\ "output" \in run'.created
              /\ run'.probe \in ProbeResults \ {"ok"})
          => (run'.pc = "report" /\ run'.video_info = "empty" /\ ~run'.failed)
       /\ (run.pc = "report" /\ run'.pc = "finally" /\ ~run'.raising
              /\ run.probe \in ProbeResults \ {"ok"})
          => run'.delivered]_vars

\* C22 witness: a video job whose probe timed out has delivered its output
\* and returned without failure.
C22_Witness ==
    /\ run.pc = "returned"
    /\ run.media_type = "video"
    /\ run.probe = "timeout"
    /\ run.video_info = "empty"
    /\ run.delivered
    /\ ~run.failed

\* C23: a video job that found no ffmpeg binary to run is not counted by
\* update_processing_stats, delivers no output, and ends in failure.
C23_UnavailableVideoFails ==
    (run.pc # "idle" /\ run.media_type = "video" /\ run.ffmpeg = "unavailable") =>
        /\ ~run.counted
        /\ ~run.delivered
        /\ run.temp \subseteq {"temp_dir", "input"}
        /\ Terminal => run.failed

\* C23 witness: a video job that found no ffmpeg binary has ended in failure.
C23_Witness ==
    /\ Terminal
    /\ run.media_type = "video"
    /\ run.ffmpeg = "unavailable"
    /\ run.failed

\* C29: a job that has ended after it started running has incremented
\* exactly one of total_files_processed and errors.
C29_CountedExactlyOnce ==
    (run.pc # "idle" /\ Terminal) => (run.counted # run.failed)

\* C24: once the result text of a job has been shown, the saving it states
\* and the saving added to the statistics are both
\* max(0, original_size - compressed_size).
C24_SavingClampedEverywhere ==
    (run.pc # "idle" /\ report.sent) =>
        LET saving == Max(0, report.original_size - report.compressed_size) IN
        /\ stats.total_bytes_saved = saving
        /\ report.saved = format_file_size(saving)

\* The sums of the per-user counters of the statistics
RECURSIVE SumFiles(_)
SumFiles(us) ==
    IF DOMAIN us = {} THEN 0
    ELSE LET u == CHOOSE x \in DOMAIN us : TRUE IN us[u].files + SumFiles(Pop(us, u))
RECURSIVE SumBytes(_)
SumBytes(us) ==
    IF DOMAIN us = {} THEN 0
    ELSE LET u == CHOOSE x \in DOMAIN us : TRUE
         IN us[u].bytes_saved + SumBytes(Pop(us, u))

\* The relative error of a ratio given in tenths of a percent is at most half
\* a tenth: | ratio / 10 - (original - compressed) * 100 / original | <= 0.05
RatioOf(ratio, original_size, compressed_size) ==
    LET e == ratio * original_size - (original_size - compressed_size) * 1000
        a == IF e >= 0 THEN e ELSE -e
    IN a <= original_size - a

\* C25: the compression ratio of a result is
\* (original_size - compressed_size) * 100 / original_size (here to the tenth
\* of a percent that is printed) when original_size > 0, and 0 when
\* original_size is 0; it is 75.0 for 1,000,000 and 250,000 bytes.
C25_CompressionRatio ==
    report.sent =>
        /\ report.original_size = 0 => report.ratio = 0
        /\ report.original_size > 0 =>
              RatioOf(report.ratio, report.original_size, report.compressed_size)
        /\ (report.original_size = 1000000 /\ report.compressed_size = 250000)
              => report.ratio = 750

\* C25 witness: the result for 1,000,000 and 250,000 bytes, with 75.0 %.
C25_Witness ==
    /\ report.sent
    /\ report.original_size = 1000000
    /\ report.compressed_size = 250000
    /\ report.ratio = 750

\* C30: after any sequence of update_processing_stats calls from the empty
\* document, total_files_processed is the sum of the users' files and is
\* audio_files + video_files, total_bytes_saved is the sum of the users'
\* bytes_saved, no user is twice in a day's list, and no call lowers a
\* counter.
C30_StatsConsistent ==
    /\ [](/\ stats.total_files_processed = SumFiles(stats.users)
          /\ stats.total_files_processed = stats.audio_files + stats.video_files
          /\ stats.total_bytes_saved = SumBytes(stats.users)
          /\ \A d \in DOMAIN stats.daily_stats :
                \A i, j \in DOMAIN stats.daily_stats[d].users :
                    stats.daily_stats[d].users[i] = stats.daily_stats[d].users[j]
                        => i = j)
    /\ [][/\ stats'.total_files_processed >= stats.total_files_processed
          /\ stats'.total_bytes_saved >= stats.total_bytes_saved
          /\ stats'.audio_files >= stats.audio_files
          /\ stats'.video_files >= stats.video_files
          /\ stats'.errors >= stats.errors
          /\ \A u \in DOMAIN stats.users :
                /\ u \in DOMAIN stats'.users
                /\ stats'.users[u].files >= stats.users[u].files
                /\ stats'.users[u].bytes_saved >= stats.users[u].bytes_saved
          /\ \A d \in DOMAIN stats.daily_stats :
                /\ d \in DOMAIN stats'.daily_stats
                /\ stats'.daily_stats[d].files >= stats.daily_stats[d].files]_vars

\* C30 witness: three calls, two of them for the same user on the same day
\* and one for a file that grew; the saving of the one reduced file is the
\* total.
C30_Witness ==
    /\ stats.total_files_processed = 3
    /\ stats.total_bytes_saved = 750000
    /\ \E u \in DOMAIN stats.users : stats.users[u].files = 2
    /\ \E d \in DOMAIN stats.daily_stats :
          /\ stats.daily_stats[d].files = 2
          /\ Len(stats.daily_stats[d].users) = 1
    /\ stats.audio_files = 1

\* C26: when every started task ends and every awaiting frame is resumed,
\* every job that is put in the queue is started at some later time, and in
\* no state is the queue non-empty while no task is running or waiting for
\* its bookkeeping.
C26_QueuedEventuallyStarted ==
    /\ \A j \in 1..FairJobs :
          (status[j] = "queued") ~> (status[j] \in {"running", "ended", "chain", "done"})
    /\ [](queue # <<>> => \E j \in Jobs : status[j] \in {"running", "ended"})

\* C26 witness: all the jobs have been submitted, the queue has been emptied,
\* and a job that was started from the queue is running.
C26_Witness ==
    /\ submitted = FairJobs
    /\ queue = <<>>
    /\ \E k \in Running : root[k] # k

\* C27: whenever the queue is non-empty, active_processes holds exactly
\* max_concurrent entries.
C27_WorkConserving ==
    queue # <<>> => Cardinality(DOMAIN active_processes) = max_concurrent

\* C28: the preset a job is transcoded with is the one its user had selected
\* when the job was admitted (resolved by the table when that was "auto").
C28_PresetOfAdmission ==
    (run.pc # "idle" /\ run.resolved # "none") =>
        run.resolved = IF run.admitted = "auto"
                       THEN get_optimal_settings(run.size, run.media_type)
                       ELSE run.admitted

\* The mode and the presets stored for user u (those of a new session when
\* none is stored)
Stored(us, u) ==
    [mode |-> get_user_state(us, u)[u].mode,
     audio_preset |-> get_user_state(us, u)[u].audio_preset,
     video_preset |-> get_user_state(us, u)[u].video_preset]

\* C31: a callback that callback_handler answers with the refusal of the
\* video mode or with an error leaves the mode and the presets stored for
\* its user as they were.
C31_RefusedCallbackStoresNothing ==
    [][(answer' # answer /\ answer'.text \in {"unavailable", "error"})
          => Stored(user_states', answer'.user) = Stored(user_states, answer'.user)]_vars
====
